---- MODULE Spec2Model ----
(***************************************************************************)
(* Model of x/distribution/keeper/allocation.go: the fee allocation cycle  *)
(* (Keeper.AllocateTokens), the per-validator allocation                   *)
(* (Keeper.AllocateTokensToValidator) run as concurrent errgroup tasks,    *)
(* and the flush of the decimal pool (SendDecimalPoolToCommunityPool).     *)
(*                                                                         *)
(* Amounts are fixed-point decimals of one denomination, held as integer   *)
(* numbers of ticks: Unit ticks make one whole coin (the code's precision  *)
(* is 10^18 ticks; every DecCoins operation used here acts on each         *)
(* denomination independently).                                            *)
(***************************************************************************)
EXTENDS Integers, Sequences, FiniteSets, TLC

\* ------------------------------------------------------------------ bounds

\* Ticks per whole coin (the fixed-point scale).
Unit == 4
\* Largest whole-coin balance of the fee collector at the start of a cycle.
MaxFee == 2
\* Largest total previous power of a cycle.
MaxPower == 3
\* Largest amount (in ticks) handed to a direct AllocateTokensToValidator call.
MaxTokens == 6

Validators == {"v1", "v2"}

\* The marker of a record the store does not hold (collections.ErrNotFound): no
\* amount a record can hold, a negative one included.
Absent == 0 - 1000

\* ------------------------------------------------------- decimal arithmetic

Abs(x) == IF x < 0 THEN -x ELSE x

\* big.Int.Quo: integer division truncated toward zero.
TruncDiv(a, b) ==
    IF (a < 0) = (b < 0) THEN Abs(a) \div Abs(b) ELSE -(Abs(a) \div Abs(b))

\* math.LegacyNewDec(n): the whole number n as a decimal.
NewDec(n) == n * Unit

\* math.LegacyOneDec().
OneDec == NewDec(1)

\* LegacyDec.MulTruncate: the product with the extra digits chopped off.
MulTruncate(x, y) == TruncDiv(x * y, Unit)

\* LegacyDec.QuoTruncate: the quotient with the extra digits chopped off.
QuoTruncate(x, y) == TruncDiv(TruncDiv(x * Unit * Unit, y), Unit)

\* chopPrecisionAndRound on a non-negative product: to the nearest tick,
\* a tie going to the even tick (banker's rounding).
ChopRoundNonNeg(d) ==
    LET quo == d \div Unit
        rem == d % Unit
    IN  IF rem = 0 THEN quo
        ELSE IF 2 * rem < Unit THEN quo
        ELSE IF 2 * rem > Unit THEN quo + 1
        ELSE IF quo % 2 = 0 THEN quo ELSE quo + 1

\* The same product chopped toward zero, which is what a truncating commission
\* split would compute.
MulDecChopped(x, y) == TruncDiv(x * y, Unit)

\* DecCoins.MulDec -> LegacyDec.Mul: the product rounded, not truncated.
MulDec(x, y) ==
    IF x * y < 0 THEN -ChopRoundNonNeg(-(x * y)) ELSE ChopRoundNonNeg(x * y)

\* DecCoins.TruncateDecimal: the whole coins (in coins) and the change (in ticks).
TruncateWhole(x) == TruncDiv(x, Unit)

\* A TruncateDecimal that loses the change.
TruncateChangeDropped(x) == 0

\* The change left by whole coins rounded up: never above zero.
TruncateChangeRoundedUp(x) == x - ((x + Unit - 1) \div Unit) * Unit

TruncateChange(x) == x - TruncateWhole(x) * Unit

\* sdk.NewDecCoinsFromCoins: whole coins as a decimal amount.
NewDecCoinsFromCoins(n) == n * Unit

\* ------------------------------------------------------------------- state

VARIABLES
    decimalPool,            \* FeePool.DecimalPool in the store (ticks)
    accumulatedCommission,  \* ValidatorsAccumulatedCommission: validator -> ticks or Absent
    currentRewards,         \* ValidatorCurrentRewards: validator -> ticks or Absent
    outstandingRewards,     \* ValidatorOutstandingRewards: validator -> ticks or Absent
    communityFund,          \* whole coins received by the protocolpool module account
    pc,                     \* AllocateTokens: "idle", "wait" (in g.Wait), "returned"
    result,                 \* what the last call returned: "none", "nil", "error", "panic"
    failedAt,               \* the step that produced the error, or "none"
    totalPreviousPower,     \* argument of AllocateTokens
    bondedVotes,            \* argument of AllocateTokens: sequence of [val, power]
    feesCollected,          \* local: the fee envelope (ticks)
    feePool,                \* local: the DecimalPool read at line 34
    communityTax,           \* local: the rate read at line 47
    feeMultiplier,          \* local: feesCollected.MulDecTruncate(voteMultiplier)
    remainingCh,            \* the buffered channel of rewards
    tpc,                    \* per task: position in the goroutine
    treward,                \* per task: local reward
    tloaded,                \* per task: the record value read by the last Get
    followEvents,           \* whether the model follows the EventManager
    events,                 \* the events held by the context's EventManager
    tevents,                \* per task: the event slice read by an EmitEvent under way
    valCommission,          \* staking keeper: validator -> val.GetCommission()
    call,                   \* arguments of a direct AllocateTokensToValidator call
    lastOp,                 \* "none", "allocate" or "flush": the last operation begun
    pre,                    \* the store as it was when the last operation began
    sends,                  \* transfers to the community fund made by the last operation
    poolSets                \* FeePool.Set calls made by the last operation

vars == <<decimalPool, accumulatedCommission, currentRewards, outstandingRewards,
          communityFund, pc, result, failedAt, totalPreviousPower, bondedVotes,
          feesCollected, feePool, communityTax, feeMultiplier, remainingCh,
          tpc, treward, tloaded, followEvents, events, tevents, valCommission, call,
          lastOp, pre, sends, poolSets>>

storeVars == <<decimalPool, accumulatedCommission, currentRewards,
               outstandingRewards, communityFund>>
cycleVars == <<totalPreviousPower, bondedVotes, feesCollected, feePool,
               communityTax, feeMultiplier, remainingCh, tpc, treward, tloaded,
               followEvents, events, tevents,
               valCommission, call>>

\* The commission rates of the validator set the cycles run on: decimals in [0, 1].
CycleCommission == [v \in Validators |-> IF v = "v1" THEN 1 ELSE Unit \div 2]

NoCall == [val |-> "none", tokens |-> 0]

\* The record as the store holds it, a missing one as the marker it is.
OrZeroRaw(x) == x

\* A record as the code uses it after a Get that reports NotFound: the zero value.
OrZero(x) == IF x = Absent THEN 0 ELSE x

\* The accumulator records a genesis file may hold for one validator.
GenesisRecords ==
    { [c |-> Absent, r |-> Absent, o |-> Absent], [c |-> 1, r |-> 2, o |-> 3] }

\* The decimal pool a genesis file may hold.
GenesisPools == {0, Unit + 1}

Snapshot ==
    [pool |-> decimalPool, c |-> accumulatedCommission, r |-> currentRewards,
     o |-> outstandingRewards, fund |-> communityFund]

Idle ==
    /\ communityFund = 0
    /\ pc = "idle"
    /\ result = "none"
    /\ failedAt = "none"
    /\ totalPreviousPower = 0
    /\ bondedVotes = <<>>
    /\ feesCollected = 0
    /\ feePool = 0
    /\ communityTax = 0
    /\ feeMultiplier = 0
    /\ remainingCh = <<>>
    /\ tpc = <<>>
    /\ treward = <<>>
    /\ tloaded = <<>>
    /\ events = <<>>
    /\ tevents = <<>>
    /\ call = NoCall
    /\ lastOp = "none"
    /\ pre = [pool |-> decimalPool, c |-> accumulatedCommission,
              r |-> currentRewards, o |-> outstandingRewards, fund |-> 0]
    /\ sends = 0
    /\ poolSets = 0

\* Events are written and never read back by the keeper, so a specification that
\* does not follow them is the one that does with the event variables left out.
Init ==
    /\ followEvents = FALSE
    /\ decimalPool \in GenesisPools
    /\ valCommission = CycleCommission
    /\ \E g \in [Validators -> GenesisRecords] :
          /\ accumulatedCommission = [v \in Validators |-> g[v].c]
          /\ currentRewards = [v \in Validators |-> g[v].r]
          /\ outstandingRewards = [v \in Validators |-> g[v].o]
    /\ Idle

\* ------------------------------------------------------------------ inputs

RECURSIVE SumPower(_)
SumPower(votes) ==
    IF votes = <<>> THEN 0 ELSE Head(votes).power + SumPower(Tail(votes))

\* The vote lists the consensus layer reports: each validator at most once, and
\* (BeginBlocker adds the powers up) powers that sum to at most the total.
VoteLists(total) ==
    { votes \in UNION { [1..n -> [val : Validators, power : 0..MaxPower]] :
                          n \in 0..Cardinality(Validators) } :
        /\ \A i, j \in DOMAIN votes : i # j => votes[i].val # votes[j].val
        /\ SumPower(votes) <= total }

\* The community tax rates the parameters may hold: decimals in [0, 1).
TaxRates == 0..(Unit - 1)

\* ------------------------------------------------- AllocateTokens, lines 21-58

\* voteMultiplier := math.LegacyOneDec().Sub(communityTax)
VoteMultiplier(tax) == OneDec - tax

\* feeMultiplier := feesCollected.MulDecTruncate(voteMultiplier)
FeeMultiplier(fees, tax) == MulTruncate(fees, VoteMultiplier(tax))

\* The call returns an error before any task is spawned.
ReturnEarly(step) ==
    /\ pc' = "returned"
    /\ result' = "error"
    /\ failedAt' = step
    /\ communityTax' = 0
    /\ feeMultiplier' = 0
    /\ tpc' = <<>>
    /\ treward' = <<>>
    /\ tloaded' = <<>>
    /\ tevents' = <<>>
    /\ remainingCh' = <<>>

\* line 40: with no previous power the fees are added to the pool in the store.
ZeroPowerSet(fees, total) ==
    /\ poolSets' = IF total = 0 THEN 1 ELSE 0
    /\ decimalPool' = IF total = 0 THEN decimalPool + fees ELSE decimalPool

\* The transfer's error looked at only after the pool was read and written.
FeeTransferCheckedLate(fees, total) ==
    /\ ReturnEarly("feeTransfer")
    /\ feePool' = decimalPool
    /\ ZeroPowerSet(fees, total)

\* lines 30-32: SendCoinsFromModuleToModule fails.
FeeTransferFails(fees, total) ==
    /\ ReturnEarly("feeTransfer")
    /\ feePool' = 0
    /\ poolSets' = 0
    /\ UNCHANGED decimalPool

\* lines 34-37: FeePool.Get fails.
FeePoolGetFails(fees, total) ==
    /\ ReturnEarly("feePoolGet")
    /\ feePool' = 0
    /\ poolSets' = 0
    /\ UNCHANGED decimalPool

\* lines 39-42: FeePool.Set fails.
ZeroPowerSetFails(fees, total) ==
    /\ total = 0
    /\ ReturnEarly("zeroPowerSet")
    /\ feePool' = decimalPool
    /\ poolSets' = 0
    /\ UNCHANGED decimalPool

\* lines 47-50: GetCommunityTax fails, after the write of line 40.
CommunityTaxFails(fees, total) ==
    /\ ReturnEarly("communityTax")
    /\ feePool' = decimalPool
    /\ ZeroPowerSet(fees, total)

\* lines 52-79: the multipliers, the channel, and one g.Go per vote.
SpawnTasks(fees, total, tax, votes) ==
    /\ pc' = "wait"
    /\ result' = "none"
    /\ failedAt' = "none"
    /\ feePool' = decimalPool
    /\ ZeroPowerSet(fees, total)
    /\ communityTax' = tax
    /\ feeMultiplier' = FeeMultiplier(fees, tax)
    /\ remainingCh' = <<>>
    /\ tpc' = [i \in DOMAIN votes |-> "lookup"]
    /\ treward' = [i \in DOMAIN votes |-> 0]
    /\ tloaded' = [i \in DOMAIN votes |-> 0]
    /\ tevents' = [i \in DOMAIN votes |-> <<>>]

\* The cycle from its entry to the spawning of the tasks.  No task runs before its
\* g.Go and the spawning loop touches no shared state, so the tasks all start
\* together.
Enter(coins, total, tax, votes) ==
    LET fees == NewDecCoinsFromCoins(coins) IN
    /\ lastOp' = "allocate"
    /\ pre' = Snapshot
    /\ totalPreviousPower' = total
    /\ bondedVotes' = votes
    /\ feesCollected' = fees
    /\ sends' = 0
    /\ UNCHANGED <<accumulatedCommission, currentRewards, outstandingRewards,
                   communityFund, valCommission, call, followEvents, events>>
    /\ \/ FeeTransferFails(fees, total)
       \/ FeePoolGetFails(fees, total)
       \/ ZeroPowerSetFails(fees, total)
       \/ CommunityTaxFails(fees, total)
       \/ SpawnTasks(fees, total, tax, votes)

\* A cycle on a vote list of the consensus layer.
AllocateTokens ==
    /\ pc = "idle"
    /\ \E coins \in 0..MaxFee, total \in 0..MaxPower, tax \in TaxRates :
       \E votes \in VoteLists(total) : Enter(coins, total, tax, votes)

\* ------------------------------------------------ the tasks, lines 63-78

\* A power fraction rounded up instead of truncated.
PowerFractionRoundedUp(power, total) ==
    (power * Unit + total - 1) \div total

\* powerFraction := NewDec(vote.Validator.Power).QuoTruncate(NewDec(totalPreviousPower))
PowerFraction(power, total) == QuoTruncate(NewDec(power), NewDec(total))

\* The share as one truncated quotient, the power fraction never rounded on its own.
RewardSingleQuotient(feeMult, power, total) ==
    TruncDiv(feeMult * NewDec(power), NewDec(total))

\* reward := feeMultiplier.MulDecTruncate(powerFraction)
Reward(feeMult, power, total) == MulTruncate(feeMult, PowerFraction(power, total))

\* commission := tokens.MulDec(val.GetCommission())
Commission(val, tokens) == MulDec(tokens, valCommission[val])

\* A delegators' part computed on its own from the rate, not by subtraction.
SharedTruncated(val, tokens) == MulTruncate(tokens, OneDec - valCommission[val])

\* shared := tokens.Sub(commission)
Shared(val, tokens) == tokens - Commission(val, tokens)

Tasks == DOMAIN tpc

\* The validator of the last vote, which every closure sees when the loop
\* variable is not copied (line 61).
ValOfLast(i) == bondedVotes[Len(bondedVotes)].val

\* A lookup that resolves every vote to one and the same validator.
ValOfFixed(i) == CHOOSE v \in Validators : TRUE

ValOf(i) == bondedVotes[i].val

\* A task returns an error to the errgroup; its siblings run on.
TaskFails(i) ==
    /\ tpc' = [tpc EXCEPT ![i] = "failed"]
    /\ UNCHANGED <<pc, result, failedAt>>

\* A panic in a goroutine ends the process: nothing runs after it.
Panics ==
    /\ pc' = "returned"
    /\ result' = "panic"
    /\ failedAt' = "none"

TaskMoves(i, to) ==
    /\ tpc' = [tpc EXCEPT ![i] = to]
    /\ UNCHANGED <<pc, result, failedAt>>

frame == <<totalPreviousPower, bondedVotes, feesCollected, feePool, communityTax,
           feeMultiplier, lastOp, pre, sends, poolSets, decimalPool, communityFund,
           valCommission, call, followEvents>>

\* lines 64-70: ValidatorByConsAddr, then the reward of the vote.  QuoTruncate
\* panics on a zero divisor.
TaskLookup(i) ==
    /\ pc = "wait" /\ tpc[i] = "lookup"
    /\ UNCHANGED <<frame, accumulatedCommission, currentRewards, outstandingRewards,
                   remainingCh, tloaded, events, tevents>>
    /\ \/ TaskFails(i) /\ UNCHANGED treward
       \/ IF totalPreviousPower = 0
            THEN Panics /\ UNCHANGED <<tpc, treward>>
            ELSE /\ treward' = [treward EXCEPT ![i] =
                        Reward(feeMultiplier, bondedVotes[i].power, totalPreviousPower)]
                 /\ TaskMoves(i, "codec")

\* EmitEvent appends to the slice of the EventManager of the context, which all
\* the tasks of a cycle share and no lock guards: the append reads the slice ...
EmitReads(i) ==
    tevents' = IF followEvents THEN [tevents EXCEPT ![i] = events] ELSE tevents

\* ... and stores it back with the event added.
EmitWrites(i, type) ==
    /\ events' = IF followEvents
                   THEN Append(tevents[i], [type |-> type, val |-> ValOf(i)])
                   ELSE events
    /\ tevents' = [tevents EXCEPT ![i] = <<>>]

\* lines 108-118: the split (DecCoins.Sub panics on a negative difference), then
\* ValidatorAddressCodec().StringToBytes, then the first half of the EmitEvent of
\* the commission event.
TaskCodec(i) ==
    /\ pc = "wait" /\ tpc[i] = "codec"
    /\ UNCHANGED <<frame, accumulatedCommission, currentRewards, outstandingRewards,
                   remainingCh, tloaded, treward, events>>
    /\ IF Shared(ValOf(i), treward[i]) < 0
         THEN Panics /\ UNCHANGED <<tpc, tevents>>
         ELSE \/ TaskFails(i) /\ UNCHANGED tevents
              \/ TaskMoves(i, "getCommission") /\ EmitReads(i)

\* lines 118-125: the second half of the EmitEvent, then
\* ValidatorsAccumulatedCommission.Get; NotFound leaves the zero value.
TaskGetCommission(i) ==
    /\ pc = "wait" /\ tpc[i] = "getCommission"
    /\ EmitWrites(i, "commission")
    /\ UNCHANGED <<frame, accumulatedCommission, currentRewards, outstandingRewards,
                   remainingCh, treward>>
    /\ \/ TaskFails(i) /\ UNCHANGED tloaded
       \/ /\ tloaded' = [tloaded EXCEPT ![i] = OrZero(accumulatedCommission[ValOf(i)])]
          /\ TaskMoves(i, "setCommission")

\* lines 130-131: add the commission and Set.
TaskSetCommission(i) ==
    /\ pc = "wait" /\ tpc[i] = "setCommission"
    /\ UNCHANGED <<frame, currentRewards, outstandingRewards, remainingCh, treward,
                   tloaded, events, tevents>>
    /\ \/ TaskFails(i) /\ UNCHANGED accumulatedCommission
       \/ /\ accumulatedCommission' = [accumulatedCommission EXCEPT ![ValOf(i)] =
                tloaded[i] + Commission(ValOf(i), treward[i])]
          /\ TaskMoves(i, "getRewards")

\* line 137: ValidatorCurrentRewards.Get.
TaskGetRewards(i) ==
    /\ pc = "wait" /\ tpc[i] = "getRewards"
    /\ UNCHANGED <<frame, accumulatedCommission, currentRewards, outstandingRewards,
                   remainingCh, treward, events, tevents>>
    /\ \/ TaskFails(i) /\ UNCHANGED tloaded
       \/ /\ tloaded' = [tloaded EXCEPT ![i] = OrZero(currentRewards[ValOf(i)])]
          /\ TaskMoves(i, "setRewards")

\* lines 143-150: add the shared part and Set, then the first half of the
\* EmitEvent of the rewards event.
TaskSetRewards(i) ==
    /\ pc = "wait" /\ tpc[i] = "setRewards"
    /\ UNCHANGED <<frame, accumulatedCommission, outstandingRewards, remainingCh,
                   treward, tloaded, events>>
    /\ \/ TaskFails(i) /\ UNCHANGED <<currentRewards, tevents>>
       \/ /\ currentRewards' = [currentRewards EXCEPT ![ValOf(i)] =
                tloaded[i] + Shared(ValOf(i), treward[i])]
          /\ TaskMoves(i, "getOutstanding")
          /\ EmitReads(i)

\* lines 150-158: the second half of the EmitEvent, then
\* ValidatorOutstandingRewards.Get.
TaskGetOutstanding(i) ==
    /\ pc = "wait" /\ tpc[i] = "getOutstanding"
    /\ EmitWrites(i, "rewards")
    /\ UNCHANGED <<frame, accumulatedCommission, currentRewards, outstandingRewards,
                   remainingCh, treward>>
    /\ \/ TaskFails(i) /\ UNCHANGED tloaded
       \/ /\ tloaded' = [tloaded EXCEPT ![i] = OrZero(outstandingRewards[ValOf(i)])]
          /\ TaskMoves(i, "setOutstanding")

\* An outstanding credit recomputed from the two truncated parts.
OutstandingRecomputed(val, tokens) ==
    MulTruncate(tokens, valCommission[val])
      + MulTruncate(tokens, OneDec - valCommission[val])

\* The amount line 163 adds to the outstanding rewards: the tokens themselves.
OutstandingCredit(val, tokens) == tokens

\* lines 163-164: add the tokens and Set.
TaskSetOutstanding(i) ==
    /\ pc = "wait" /\ tpc[i] = "setOutstanding"
    /\ UNCHANGED <<frame, accumulatedCommission, currentRewards, remainingCh, treward,
                   tloaded, events, tevents>>
    /\ \/ TaskFails(i) /\ UNCHANGED outstandingRewards
       \/ /\ outstandingRewards' = [outstandingRewards EXCEPT ![ValOf(i)] =
                tloaded[i] + OutstandingCredit(ValOf(i), treward[i])]
          /\ TaskMoves(i, "send")

\* A buffer one place short of the number of votes.
ChannelOneShort == Len(bondedVotes) - 1

\* line 58: make(chan sdk.DecCoins, len(bondedVotes)).
ChannelCap == Len(bondedVotes)

\* line 76: remainingCh <- reward; the send blocks while the buffer is full, since
\* nothing receives before line 87.
TaskSend(i) ==
    /\ pc = "wait" /\ tpc[i] = "send"
    /\ Len(remainingCh) < ChannelCap
    /\ remainingCh' = Append(remainingCh, treward[i])
    /\ TaskMoves(i, "done")
    /\ UNCHANGED <<frame, accumulatedCommission, currentRewards, outstandingRewards,
                   treward, tloaded, events, tevents>>

TaskStep ==
    \E i \in Tasks :
        \/ TaskLookup(i)
        \/ TaskCodec(i)
        \/ TaskGetCommission(i)
        \/ TaskSetCommission(i)
        \/ TaskGetRewards(i)
        \/ TaskSetRewards(i)
        \/ TaskGetOutstanding(i)
        \/ TaskSetOutstanding(i)
        \/ TaskSend(i)

\* --------------------------------------------- AllocateTokens, lines 81-101

\* A remainder recomputed from the tax split, not from the shares handed out.
DrainRecomputed(remaining, ch) == remaining - feeMultiplier

\* A drain that receives one reward only.
DrainFirstOnly(remaining, ch) ==
    IF ch = <<>> THEN remaining ELSE remaining - Head(ch)

\* lines 87-89: remaining = remaining.Sub(reward) for each reward received.
RECURSIVE Drain(_, _)
Drain(remaining, ch) ==
    IF ch = <<>> THEN remaining ELSE Drain(remaining - Head(ch), Tail(ch))

\* DecCoins.Sub panics when a difference is negative.
RECURSIVE DrainPanics(_, _)
DrainPanics(remaining, ch) ==
    /\ ch # <<>>
    /\ \/ remaining - Head(ch) < 0
       \/ DrainPanics(remaining - Head(ch), Tail(ch))

\* A wait that ends at the first error, the other tasks still running.
AllDoneOrFirstError ==
    \/ \E i \in Tasks : tpc[i] = "failed"
    \/ \A i \in Tasks : tpc[i] \in {"done", "failed"}

AllDone == \A i \in Tasks : tpc[i] \in {"done", "failed"}
SomeFailed == \E i \in Tasks : tpc[i] = "failed"

\* g.Wait returns once every task has returned; with an error the call returns
\* it (line 82).
WaitError ==
    /\ pc = "wait" /\ AllDone /\ SomeFailed
    /\ pc' = "returned"
    /\ result' = "error"
    /\ failedAt' = "task"
    /\ UNCHANGED <<storeVars, cycleVars, lastOp, pre, sends, poolSets>>

\* lines 84-101: close the channel, drain it, send the whole coins of what
\* remains to the community pool and set the pool to the value read at line 34
\* plus the change.
Reconcile ==
    /\ pc = "wait" /\ AllDone /\ ~SomeFailed
    /\ pc' = "returned"
    /\ UNCHANGED <<cycleVars, lastOp, pre, accumulatedCommission, currentRewards,
                   outstandingRewards>>
    /\ IF DrainPanics(feesCollected, remainingCh)
         THEN /\ result' = "panic"
              /\ failedAt' = "none"
              /\ UNCHANGED <<decimalPool, communityFund, sends, poolSets>>
         ELSE LET remaining == Drain(feesCollected, remainingCh)
                  amt == TruncateWhole(remaining)
                  re == TruncateChange(remaining)
              IN  \/ \* line 93: the transfer fails
                     /\ result' = "error"
                     /\ failedAt' = "communitySend"
                     /\ UNCHANGED <<decimalPool, communityFund, sends, poolSets>>
                  \/ \* line 97: FeePool.Set fails
                     /\ result' = "error"
                     /\ failedAt' = "finalSet"
                     /\ communityFund' = communityFund + amt
                     /\ sends' = sends + 1
                     /\ UNCHANGED <<decimalPool, poolSets>>
                  \/ /\ result' = "nil"
                     /\ failedAt' = "none"
                     /\ communityFund' = communityFund + amt
                     /\ sends' = sends + 1
                     /\ decimalPool' = feePool + re
                     /\ poolSets' = poolSets + 1

\* ------------------------------- SendDecimalPoolToCommunityPool, lines 169-185

\* The flush runs between cycles: the model follows the one after the cycle.
SendDecimalPoolToCommunityPool ==
    /\ pc = "returned"
    /\ result # "panic"
    /\ lastOp = "allocate"
    /\ lastOp' = "flush"
    /\ pre' = Snapshot
    /\ UNCHANGED <<pc, cycleVars, accumulatedCommission, currentRewards,
                   outstandingRewards>>
    /\ \/ \* line 170: FeePool.Get fails
          /\ result' = "error"
          /\ failedAt' = "feePoolGet"
          /\ sends' = 0
          /\ poolSets' = 0
          /\ UNCHANGED <<decimalPool, communityFund>>
       \/ \* line 175: nothing to send
          /\ decimalPool = 0
          /\ result' = "nil"
          /\ failedAt' = "none"
          /\ sends' = 0
          /\ poolSets' = 0
          /\ UNCHANGED <<decimalPool, communityFund>>
       \/ \* line 180: the transfer fails
          /\ decimalPool # 0
          /\ result' = "error"
          /\ failedAt' = "communitySend"
          /\ sends' = 0
          /\ poolSets' = 0
          /\ UNCHANGED <<decimalPool, communityFund>>
       \/ \* line 184: FeePool.Set fails
          /\ decimalPool # 0
          /\ result' = "error"
          /\ failedAt' = "finalSet"
          /\ communityFund' = communityFund + TruncateWhole(decimalPool)
          /\ sends' = 1
          /\ poolSets' = 0
          /\ UNCHANGED decimalPool
       \/ /\ decimalPool # 0
          /\ result' = "nil"
          /\ failedAt' = "none"
          /\ communityFund' = communityFund + TruncateWhole(decimalPool)
          /\ decimalPool' = TruncateChange(decimalPool)
          /\ sends' = 1
          /\ poolSets' = 1

\* ------------------------------------------------------------ specification

Next ==
    \/ AllocateTokens
    \/ TaskStep
    \/ WaitError
    \/ Reconcile
    \/ SendDecimalPoolToCommunityPool

Spec == Init /\ [][Next]_vars

\* ------------------------- AllocateTokensToValidator called directly, lines 106-165

\* The records of val after the call got as far as `upto` of its three writes.
EngineWrites(val, tokens, upto) ==
    /\ accumulatedCommission' =
          IF upto >= 1
            THEN [accumulatedCommission EXCEPT ![val] =
                    OrZero(accumulatedCommission[val]) + Commission(val, tokens)]
            ELSE accumulatedCommission
    /\ currentRewards' =
          IF upto >= 2
            THEN [currentRewards EXCEPT ![val] =
                    OrZero(currentRewards[val]) + Shared(val, tokens)]
            ELSE currentRewards
    /\ outstandingRewards' =
          IF upto >= 3
            THEN [outstandingRewards EXCEPT ![val] =
                    OrZero(outstandingRewards[val]) + OutstandingCredit(val, tokens)]
            ELSE outstandingRewards

\* The events of val the call emitted when it got as far as `upto` of its two
\* EmitEvent calls (lines 118 and 150).
EngineEmits(val, upto) ==
    events' = events \o SubSeq(<<[type |-> "commission", val |-> val],
                                  [type |-> "rewards", val |-> val]>>, 1, upto)

EngineReturns(res, step) ==
    /\ result' = res
    /\ failedAt' = step

\* One call of the method outside a cycle, from its entry to its return: nothing
\* else runs meanwhile.
AllocateTokensToValidator ==
    /\ pc = "idle"
    /\ \E val \in Validators, tokens \in 0..MaxTokens :
          /\ pc' = "returned"
          /\ lastOp' = "engine"
          /\ pre' = Snapshot
          /\ call' = [val |-> val, tokens |-> tokens]
          /\ UNCHANGED <<decimalPool, communityFund, totalPreviousPower, bondedVotes,
                         feesCollected, feePool, communityTax, feeMultiplier,
                         remainingCh, tpc, treward, tloaded, followEvents, tevents,
                         valCommission, sends, poolSets>>
          /\ IF Shared(val, tokens) < 0
               THEN /\ EngineReturns("panic", "none")
                    /\ EngineWrites(val, tokens, 0) /\ EngineEmits(val, 0)
               ELSE \/ /\ EngineReturns("error", "codec")
                       /\ EngineWrites(val, tokens, 0) /\ EngineEmits(val, 0)
                    \/ /\ EngineReturns("error", "getCommission")
                       /\ EngineWrites(val, tokens, 0) /\ EngineEmits(val, 1)
                    \/ /\ EngineReturns("error", "setCommission")
                       /\ EngineWrites(val, tokens, 0) /\ EngineEmits(val, 1)
                    \/ /\ EngineReturns("error", "getRewards")
                       /\ EngineWrites(val, tokens, 1) /\ EngineEmits(val, 1)
                    \/ /\ EngineReturns("error", "setRewards")
                       /\ EngineWrites(val, tokens, 1) /\ EngineEmits(val, 1)
                    \/ /\ EngineReturns("error", "getOutstanding")
                       /\ EngineWrites(val, tokens, 2) /\ EngineEmits(val, 2)
                    \/ /\ EngineReturns("error", "setOutstanding")
                       /\ EngineWrites(val, tokens, 2) /\ EngineEmits(val, 2)
                    \/ /\ EngineReturns("nil", "none")
                       /\ EngineWrites(val, tokens, 3) /\ EngineEmits(val, 2)

\* The records a store may hold for one validator when the method is called.
EngineRecords ==
    GenesisRecords \cup { [c |-> 0, r |-> 0, o |-> 0],
                          [c |-> Absent, r |-> 2, o |-> 3],
                          [c |-> 1, r |-> Absent, o |-> Absent] }

InitEngine ==
    /\ followEvents = TRUE
    /\ decimalPool = 0
    /\ valCommission \in [Validators -> 0..Unit]
    /\ \E g \in [Validators -> EngineRecords] :
          /\ accumulatedCommission = [v \in Validators |-> g[v].c]
          /\ currentRewards = [v \in Validators |-> g[v].r]
          /\ outstandingRewards = [v \in Validators |-> g[v].o]
    /\ Idle

NextEngine == AllocateTokensToValidator

SpecEngine == InitEngine /\ [][NextEngine]_vars

\* ------------------------------------------- cycles with the event manager followed

\* A store without accumulator records yet, and an empty event manager.
InitEvents ==
    /\ followEvents = TRUE
    /\ decimalPool = 0
    /\ valCommission = CycleCommission
    /\ accumulatedCommission = [v \in Validators |-> Absent]
    /\ currentRewards = [v \in Validators |-> Absent]
    /\ outstandingRewards = [v \in Validators |-> Absent]
    /\ Idle

NextEvents ==
    \/ AllocateTokens
    \/ TaskStep
    \/ WaitError
    \/ Reconcile

SpecEvents == InitEvents /\ [][NextEvents]_vars

\* --------------------------------------- cycles on a vote list with a negative power

\* vote.Validator.Power is an int64 and AllocateTokens reads it unchecked (line
\* 69): the vote lists with a power below zero, the powers still adding up to at
\* most the total.
MalformedVoteLists(total) ==
    { votes \in UNION { [1..n -> [val : Validators, power : (0 - 1)..MaxPower]] :
                          n \in 1..Cardinality(Validators) } :
        /\ \A i, j \in DOMAIN votes : i # j => votes[i].val # votes[j].val
        /\ \E i \in DOMAIN votes : votes[i].power < 0
        /\ SumPower(votes) <= total }

\* A validator set in which v1 keeps the whole reward as commission.
FullCommission == [v \in Validators |-> IF v = "v1" THEN OneDec ELSE Unit \div 2]

AllocateTokensMalformed ==
    /\ pc = "idle"
    /\ \E coins \in 0..MaxFee, total \in 0..MaxPower, tax \in TaxRates :
       \E votes \in MalformedVoteLists(total) : Enter(coins, total, tax, votes)

\* A store without accumulator records yet.
InitMalformed ==
    /\ followEvents = FALSE
    /\ decimalPool \in GenesisPools
    /\ valCommission \in {CycleCommission, FullCommission}
    /\ accumulatedCommission = [v \in Validators |-> Absent]
    /\ currentRewards = [v \in Validators |-> Absent]
    /\ outstandingRewards = [v \in Validators |-> Absent]
    /\ Idle

NextMalformed ==
    \/ AllocateTokensMalformed
    \/ TaskStep
    \/ WaitError
    \/ Reconcile

SpecMalformed == InitMalformed /\ [][NextMalformed]_vars

\* ================================================================== claims

\* The last operation was a cycle, and it returned `res`.
CycleEnded(res) == lastOp = "allocate" /\ pc = "returned" /\ result = res

\* The validators of the vote list.
Voted == { bondedVotes[i].val : i \in DOMAIN bondedVotes }

\* What the last operation added to a record of v (an absent record counts as zero).
Delta(now, before, v) == OrZero(now[v]) - OrZero(before[v])

RECURSIVE SumOutstandingDelta(_)
SumOutstandingDelta(S) ==
    IF S = {} THEN 0
    ELSE LET v == CHOOSE x \in S : TRUE
         IN  Delta(outstandingRewards, pre.o, v) + SumOutstandingDelta(S \ {v})

RecordsUnchanged ==
    /\ accumulatedCommission = pre.c
    /\ currentRewards = pre.r
    /\ outstandingRewards = pre.o

\* No record holds another amount than before the operation (a record created
\* holding zero counts as kept).
RecordsKeepValues ==
    \A v \in Validators :
        /\ Delta(accumulatedCommission, pre.c, v) = 0
        /\ Delta(currentRewards, pre.r, v) = 0
        /\ Delta(outstandingRewards, pre.o, v) = 0

\* C1 (conservation): after a successful cycle with total power > 0, what the voted
\* validators' outstanding rewards gained, plus what went to the community fund,
\* plus what the decimal pool gained, is exactly the fee envelope.
C1_Conservation ==
    (CycleEnded("nil") /\ totalPreviousPower > 0) =>
        SumOutstandingDelta(Voted)
          + NewDecCoinsFromCoins(communityFund - pre.fund)
          + (decimalPool - pre.pool) = feesCollected

\* A successful two-vote cycle in which all three parts are non-zero.
C1_Witness ==
    /\ CycleEnded("nil") /\ totalPreviousPower > 0
    /\ Len(bondedVotes) = 2
    /\ \A v \in Voted : Delta(outstandingRewards, pre.o, v) > 0
    /\ communityFund > pre.fund
    /\ decimalPool > pre.pool

\* C2 (zero-power cycle), as the specification states it: a successful cycle with
\* total power 0 and no votes changes no record, adds the whole envelope to the
\* decimal pool and sends nothing to the community fund.
C2_ZeroPowerFoldsIntoPool ==
    (CycleEnded("nil") /\ totalPreviousPower = 0 /\ bondedVotes = <<>>) =>
        /\ RecordsUnchanged
        /\ decimalPool = pre.pool + feesCollected
        /\ communityFund = pre.fund

\* What a direct AllocateTokensToValidator call added to a record of its validator.
CallDelta(now, before) == Delta(now, before, call.val)

EngineEnded(res) == lastOp = "engine" /\ pc = "returned" /\ result = res

C4_SplitExact ==
    EngineEnded("nil") =>
        /\ CallDelta(accumulatedCommission, pre.c)
             + CallDelta(currentRewards, pre.r) = call.tokens
        /\ CallDelta(outstandingRewards, pre.o) = call.tokens

\* A call that splits a reward into two non-zero parts, the product not a whole
\* number of ticks.
C4_Witness ==
    /\ EngineEnded("nil")
    /\ CallDelta(accumulatedCommission, pre.c) > 0
    /\ CallDelta(currentRewards, pre.r) > 0
    /\ (call.tokens * valCommission[call.val]) % Unit # 0

\* outstanding = commission + current rewards, absent records counting as zero.
Relation(c, r, o, v) == OrZero(o[v]) = OrZero(c[v]) + OrZero(r[v])

\* C5 (accumulator relation): a validator whose records satisfied
\* outstanding = commission + current before the cycle satisfies it again once its
\* task's AllocateTokensToValidator has returned without error, whatever the
\* other tasks are doing; so every voted validator does after a successful cycle.
C5_RelationKept ==
    (lastOp = "allocate" /\ pc \in {"wait", "returned"}) =>
        \A i \in Tasks :
            (tpc[i] \in {"send", "done"} /\ Relation(pre.c, pre.r, pre.o, ValOf(i)))
              => Relation(accumulatedCommission, currentRewards, outstandingRewards,
                          ValOf(i))

\* A successful cycle that credited two validators, one of them with records
\* before the cycle.
C5_Witness ==
    /\ CycleEnded("nil")
    /\ Len(bondedVotes) = 2
    /\ \A v \in Voted : /\ Delta(accumulatedCommission, pre.c, v) > 0
                        /\ Delta(currentRewards, pre.r, v) > 0
    /\ \E v \in Voted : pre.o[v] # Absent

\* C6 (abort of the whole cycle), as the specification states it: when a task
\* fails, the cycle returns an error and every accumulator record holds its
\* pre-cycle amount.
C6_NoPartialUpdate ==
    (CycleEnded("error") /\ failedAt = "task") => RecordsKeepValues

\* ---------------------------------------- the cycle run on a list, one vote at a time

\* AllocateTokensToValidator on the records of a snapshot.
ApplyEngine(st, val, tokens) ==
    [st EXCEPT !.c[val] = OrZero(@) + Commission(val, tokens),
               !.r[val] = OrZero(@) + Shared(val, tokens),
               !.o[val] = OrZero(@) + OutstandingCredit(val, tokens)]

RewardsOf(votes) ==
    [i \in DOMAIN votes |-> Reward(feeMultiplier, votes[i].power, totalPreviousPower)]

RECURSIVE ApplyVotes(_, _)
ApplyVotes(st, votes) ==
    IF votes = <<>> THEN st
    ELSE ApplyVotes(ApplyEngine(st, Head(votes).val, RewardsOf(votes)[1]), Tail(votes))

\* Lines 60-99 on the vote list `votes`, the tasks run to completion one after the
\* other in the order of the list, from the store `st`.
SeqCycle(st, votes) ==
    LET remaining == Drain(feesCollected, RewardsOf(votes))
        after == ApplyVotes(st, votes)
    IN  [after EXCEPT !.fund = @ + TruncateWhole(remaining),
                      !.pool = st.pool + TruncateChange(remaining)]

\* The vote list in every order.
Reorderings(votes) ==
    { [i \in DOMAIN votes |-> votes[p[i]]] : p \in Permutations(DOMAIN votes) }

\* C7 (order independence): the store a successful cycle leaves (the three records
\* of every validator, the community fund, the decimal pool) is the one the cycle
\* leaves on any reordering of its vote list.
C7_OrderIndependence ==
    (CycleEnded("nil") /\ totalPreviousPower > 0) =>
        \A votes \in Reorderings(bondedVotes) : SeqCycle(pre, votes) = Snapshot

\* A successful cycle on two votes with different rewards.
C7_Witness ==
    /\ CycleEnded("nil") /\ totalPreviousPower > 0
    /\ Len(bondedVotes) = 2
    /\ treward[1] # treward[2]
    /\ treward[1] > 0 /\ treward[2] > 0

\* C8 (failure of the initial fee transfer): the cycle returns the error with the
\* decimal pool, every accumulator record and the community fund as they were,
\* no task started and no write or transfer made.
C8_FeeTransferFailure ==
    (CycleEnded("error") /\ failedAt = "feeTransfer") =>
        /\ Snapshot = pre
        /\ tpc = <<>>
        /\ sends = 0
        /\ poolSets = 0

\* The transfer fails in a cycle that has fees to move, no previous power, and a
\* pool and records in the store.
C8_Witness ==
    /\ CycleEnded("error") /\ failedAt = "feeTransfer"
    /\ feesCollected > 0
    /\ totalPreviousPower = 0
    /\ decimalPool > 0
    /\ \E v \in Validators : outstandingRewards[v] # Absent

FlushEnded(res) == lastOp = "flush" /\ result = res

\* C9 (flush): a flush of an empty pool makes no transfer and no pool write; a
\* successful flush of any other pool sends its whole coins to the community fund
\* and keeps the fraction below one coin, so what the fund gained plus the new
\* pool is the old pool; no flush sends a negative amount.
C9_FlushSemantics ==
    lastOp = "flush" =>
        /\ communityFund >= pre.fund
        /\ pre.pool = 0 =>
              /\ sends = 0 /\ poolSets = 0
              /\ decimalPool = 0 /\ communityFund = pre.fund
        /\ (result = "nil" /\ pre.pool # 0) =>
              /\ communityFund - pre.fund = pre.pool \div Unit
              /\ decimalPool = pre.pool % Unit
              /\ (communityFund - pre.fund) * Unit + decimalPool = pre.pool
              /\ sends = 1

\* The flush of a pool one tick short of two coins: one coin sent, the rest kept.
C9_Witness ==
    /\ FlushEnded("nil")
    /\ pre.pool = 2 * Unit - 1
    /\ communityFund = pre.fund + 1
    /\ decimalPool = Unit - 1

RECURSIVE SumSeq(_)
SumSeq(q) == IF q = <<>> THEN 0 ELSE Head(q) + SumSeq(Tail(q))

\* C10 (never over-allocate): at every point of a cycle with total power > 0 the
\* shares computed for the votes, and the outstanding rewards credited, sum to at
\* most the distributable amount, which is at most the envelope; the remainder is
\* never negative and the subtraction of the shares never panics.
C10_NeverOverAllocate ==
    (lastOp = "allocate" /\ totalPreviousPower > 0) =>
        /\ SumSeq(treward) <= feeMultiplier
        /\ SumOutstandingDelta(Voted) <= feeMultiplier
        /\ feeMultiplier <= feesCollected
        /\ feesCollected - SumSeq(treward) >= 0
        /\ result # "panic"

\* A successful cycle whose votes hold all the power and whose shares sum to less
\* than the distributable amount, which is less than the envelope.
C10_Witness ==
    /\ CycleEnded("nil")
    /\ Len(bondedVotes) = 2
    /\ SumPower(bondedVotes) = totalPreviousPower
    /\ 0 < SumSeq(treward)
    /\ SumSeq(treward) < feeMultiplier
    /\ feeMultiplier < feesCollected

\* The snapshot with every missing record of `v` stored as zero.
ZeroFilled(st, v) ==
    [st EXCEPT !.c[v] = IF @ = Absent THEN 0 ELSE @,
               !.r[v] = IF @ = Absent THEN 0 ELSE @,
               !.o[v] = IF @ = Absent THEN 0 ELSE @]

\* C11 (absent as zero): a successful AllocateTokensToValidator on a validator
\* with a missing commission, current-rewards or outstanding record leaves all
\* three records present and holding exactly the values the same call leaves
\* when the missing records are stored as zero.
C11_AbsentAsZero ==
    EngineEnded("nil") =>
        LET zero == ApplyEngine(ZeroFilled(pre, call.val), call.val, call.tokens)
        IN  /\ accumulatedCommission[call.val] # Absent
            /\ currentRewards[call.val] # Absent
            /\ outstandingRewards[call.val] # Absent
            /\ accumulatedCommission = zero.c
            /\ currentRewards = zero.r
            /\ outstandingRewards = zero.o

\* A successful call that credits a validator whose commission record alone is
\* missing, with a commission and a share to add.
C11_Witness ==
    /\ EngineEnded("nil")
    /\ pre.c[call.val] = Absent
    /\ pre.r[call.val] # Absent
    /\ accumulatedCommission[call.val] > 0
    /\ currentRewards[call.val] > pre.r[call.val]

Malformed == \E i \in DOMAIN bondedVotes : bondedVotes[i].power < 0

\* C12 (malformed vote list), as the specification states it: a cycle with total
\* power > 0 whose vote list carries a power below zero returns an error; it does
\* not succeed, it does not end otherwise, and it credits no record with a
\* negative share.
C12_MalformedAborts ==
    (lastOp = "allocate" /\ Malformed /\ totalPreviousPower > 0) =>
        /\ pc = "returned" => result = "error"
        /\ \A v \in Validators :
              /\ Delta(accumulatedCommission, pre.c, v) >= 0
              /\ Delta(currentRewards, pre.r, v) >= 0
              /\ Delta(outstandingRewards, pre.o, v) >= 0

\* truncate(truncate(E * (1 - r)) * truncate(power / totalPower)), in ticks.
ShareOf(vote) ==
    (((feesCollected * (Unit - communityTax)) \div Unit)
        * ((vote.power * Unit) \div totalPreviousPower)) \div Unit

RECURSIVE SumShares(_)
SumShares(votes) ==
    IF votes = <<>> THEN 0 ELSE ShareOf(Head(votes)) + SumShares(Tail(votes))

\* C13 (share formula): after a successful cycle with total power > 0 the
\* outstanding rewards of every voted validator gained exactly
\* truncate(truncate(E * (1 - r)) * truncate(power / totalPower)); and when the
\* envelope less these shares is a whole number of coins, all of it went to the
\* community fund and the decimal pool gained nothing.
C13_ShareFormula ==
    (CycleEnded("nil") /\ totalPreviousPower > 0) =>
        /\ \A i \in DOMAIN bondedVotes :
              Delta(outstandingRewards, pre.o, bondedVotes[i].val)
                = ShareOf(bondedVotes[i])
        /\ LET rest == feesCollected - SumShares(bondedVotes)
           IN  rest % Unit = 0 =>
                  /\ NewDecCoinsFromCoins(communityFund - pre.fund) = rest
                  /\ decimalPool = pre.pool

\* The specification's example at this precision: two validators share the
\* distributable half of two coins equally; each gains half a coin, the other
\* coin goes to the community fund and the pool gains nothing.
C13_Witness ==
    /\ CycleEnded("nil")
    /\ feesCollected = NewDecCoinsFromCoins(2)
    /\ 2 * communityTax = OneDec
    /\ Len(bondedVotes) = 2
    /\ \A i \in DOMAIN bondedVotes : bondedVotes[i].power = 1
    /\ totalPreviousPower = 2
    /\ \A v \in Voted : 2 * Delta(outstandingRewards, pre.o, v) = OneDec
    /\ communityFund = pre.fund + 1
    /\ decimalPool = pre.pool

\* The positions of a task after its Set of the commission, of the current
\* rewards, of the outstanding rewards.
AfterSetCommission ==
    {"getRewards", "setRewards", "getOutstanding", "setOutstanding", "send", "done"}
AfterSetRewards == {"getOutstanding", "setOutstanding", "send", "done"}
AfterSetOutstanding == {"send", "done"}

\* What the records of the validator of vote `i` gained is what the task of that
\* vote has written so far, whatever the other tasks have done.
OwnProgressOnly(i) ==
    LET v == bondedVotes[i].val
        credit(done, amount) == IF tpc[i] \in done THEN amount ELSE 0
    IN  /\ Delta(accumulatedCommission, pre.c, v)
             = credit(AfterSetCommission, Commission(v, treward[i]))
        /\ Delta(currentRewards, pre.r, v)
             = credit(AfterSetRewards, Shared(v, treward[i]))
        /\ Delta(outstandingRewards, pre.o, v)
             = credit(AfterSetOutstanding, OutstandingCredit(v, treward[i]))

\* C14 (interleaving independence): the tasks' loads, additions, writes and
\* channel sends taken as separate steps, in every interleaving the records of a
\* task's validator follow that task's own progress alone, and a successful
\* cycle ends with the records, the community fund and the decimal pool of the
\* run in which the tasks execute one after the other in the order of the vote
\* list, the channel having carried the same rewards in some order.
C14_InterleavingIndependence ==
    (lastOp = "allocate" /\ pc \in {"wait", "returned"}) =>
        /\ \A i \in Tasks : tpc[i] # "failed" => OwnProgressOnly(i)
        /\ (CycleEnded("nil") /\ totalPreviousPower > 0) =>
              /\ Snapshot = SeqCycle(pre, bondedVotes)
              /\ \E p \in Permutations(DOMAIN bondedVotes) :
                    remainingCh = [i \in DOMAIN bondedVotes |->
                                     RewardsOf(bondedVotes)[p[i]]]

\* A successful cycle in which the task of the second vote sent its reward before
\* the task of the first, on validators that both had records.
C14_Witness ==
    /\ CycleEnded("nil")
    /\ Len(bondedVotes) = 2
    /\ treward[1] > 0 /\ treward[2] > treward[1]
    /\ remainingCh = <<treward[2], treward[1]>>
    /\ \A v \in Voted : pre.c[v] # Absent

\* The positions of a task after its EmitEvent of the commission event, of the
\* rewards event.
AfterEmitCommission == {"setCommission"} \cup AfterSetCommission
AfterEmitRewards == {"setOutstanding"} \cup AfterSetOutstanding

Holds(type, v) == \E k \in DOMAIN events : events[k] = [type |-> type, val |-> v]

\* C15 (disjoint writes), as the specification states it: in a cycle no two tasks
\* work on the same validator's keys, and nothing a task has written is lost by
\* being overwritten by another task: the records of its validator hold its
\* writes, and the event manager holds the events it has emitted.
C15_NoLostUpdate ==
    (lastOp = "allocate" /\ pc \in {"wait", "returned"}) =>
        /\ \A i, j \in Tasks : i # j => ValOf(i) # ValOf(j)
        /\ \A i \in Tasks :
              tpc[i] # "failed" =>
                 /\ OwnProgressOnly(i)
                 /\ tpc[i] \in AfterEmitCommission => Holds("commission", ValOf(i))
                 /\ tpc[i] \in AfterEmitRewards => Holds("rewards", ValOf(i))

\* No task is running once AllocateTokens has returned, and the call succeeded or
\* reached its transfer only with every task done.
JoinedAtReturn ==
    lastOp = "allocate" =>
        /\ (pc = "returned" /\ result \in {"nil", "error"}) =>
              \A i \in Tasks : tpc[i] \in {"done", "failed"}
        /\ (result = "nil" \/ sends > 0) => \A i \in Tasks : tpc[i] = "done"

\* After the spawning of the tasks the pool and the community fund change only
\* when every task is done; after the return no accumulator record changes.
ReconcileAfterJoin ==
    /\ (pc = "wait" /\ <<decimalPool, communityFund>>' # <<decimalPool, communityFund>>)
          => \A i \in Tasks : tpc[i] = "done"
    /\ pc = "returned" =>
          UNCHANGED <<accumulatedCommission, currentRewards, outstandingRewards>>

\* C16 (join before reconcile): the orchestrator computes the remainder, makes the
\* transfer and writes the pool only after every spawned task has finished and
\* all have succeeded; whenever AllocateTokens returns, with success or with an
\* error, no task is still running, and no accumulator is written after the
\* return.
C16_JoinBeforeReconcile == []JoinedAtReturn /\ [][ReconcileAfterJoin]_vars

\* A cycle that returned the error of one task after its sibling had run to its
\* end and credited its validator.
C16_Witness ==
    /\ CycleEnded("error") /\ failedAt = "task"
    /\ Len(bondedVotes) = 2
    /\ \E i, j \in Tasks :
          /\ tpc[i] = "failed" /\ tpc[j] = "done"
          /\ Delta(outstandingRewards, pre.o, bondedVotes[j].val) > 0
          /\ Delta(outstandingRewards, pre.o, bondedVotes[i].val) = 0

\* C17 (pool non-negativity): from a non-negative pool, through cycles that
\* succeed or fail and flushes, the decimal pool is never negative; a cycle never
\* leaves it below what it was before the cycle, and a flush takes whole coins
\* only: all of them when it succeeds, none otherwise.
C17_PoolNonNegative ==
    /\ decimalPool >= 0
    /\ lastOp = "allocate" => decimalPool >= pre.pool
    /\ lastOp = "flush" =>
          /\ decimalPool \in {pre.pool, pre.pool % Unit}
          /\ (pre.pool - decimalPool) % Unit = 0
          /\ result = "nil" => decimalPool = pre.pool % Unit

\* A flush, after a cycle that raised a pool above one coin, that took the whole
\* coins and left a fraction.
C17_Witness ==
    /\ FlushEnded("nil")
    /\ feePool > Unit
    /\ pre.pool > feePool
    /\ decimalPool > 0
    /\ decimalPool < Unit
    /\ decimalPool = pre.pool - NewDecCoinsFromCoins(communityFund - pre.fund)

\* C18 (pool on an error return), as the specification states it: whenever
\* AllocateTokens returns an error, at whichever step, the decimal pool holds its
\* pre-cycle value, in a cycle entered with total power 0 as in any other.
C18_ErrorKeepsPool ==
    CycleEnded("error") => decimalPool = pre.pool

\* The steps a task at a position has still to take.
StepsLeft ==
    [p \in {"lookup", "codec", "getCommission", "setCommission", "getRewards",
            "setRewards", "getOutstanding", "setOutstanding", "send", "done",
            "failed"} |->
        CASE p = "lookup" -> 9
          [] p = "codec" -> 8
          [] p = "getCommission" -> 7
          [] p = "setCommission" -> 6
          [] p = "getRewards" -> 5
          [] p = "setRewards" -> 4
          [] p = "getOutstanding" -> 3
          [] p = "setOutstanding" -> 2
          [] p = "send" -> 1
          [] OTHER -> 0]

\* The steps a call in state `at` with tasks at `positions` has still to take:
\* those of its tasks, and its return.
RECURSIVE WorkLeft(_, _)
WorkLeft(at, positions) ==
    IF positions = <<>> THEN (IF at = "wait" THEN 1 ELSE 0)
    ELSE StepsLeft[Head(positions)] + WorkLeft(at, Tail(positions))

\* While the call has not returned some step of it can be taken; no task at its
\* send finds the channel full; the channel holds one reward per finished task;
\* a successful call has drained one reward per vote from the envelope.
NeverStuck ==
    lastOp = "allocate" =>
        /\ pc = "wait" => ENABLED (TaskStep \/ WaitError \/ Reconcile)
        /\ \A i \in Tasks : tpc[i] = "send" => Len(remainingCh) < Len(bondedVotes)
        /\ Len(remainingCh) = Cardinality({i \in Tasks : tpc[i] = "done"})
        /\ result = "nil" =>
              /\ Len(remainingCh) = Len(bondedVotes)
              /\ NewDecCoinsFromCoins(communityFund - pre.fund) + (decimalPool - feePool)
                    = feesCollected - SumSeq(treward)

\* Every step of a call that has not returned leaves it fewer steps to take.
StepsRunOut == pc = "wait" => WorkLeft(pc', tpc') < WorkLeft(pc, tpc)

\* C19 (termination): for any vote list and any pattern of task failures a call
\* of AllocateTokens never deadlocks and takes a bounded number of steps: no task
\* blocks on its channel send, the wait completes, the drain ends; on success one
\* reward per vote has been subtracted from the envelope.
C19_Terminates == []NeverStuck /\ [][StepsRunOut]_vars

\* A cycle on two votes in which one task had sent its reward, the buffer not
\* drained, when the other came to send, and which returned with success.
C19_Witness ==
    /\ CycleEnded("nil")
    /\ Len(bondedVotes) = 2
    /\ Len(remainingCh) = 2
    /\ \A i \in Tasks : tpc[i] = "done" /\ treward[i] > 0

\* The three records of `v`, as the store holds them.
RecordsOf(c, r, o, v) == <<c[v], r[v], o[v]>>

\* The records of the validators the vote list does not name are as they were
\* before the cycle, missing ones still missing.
CycleFrame ==
    lastOp = "allocate" =>
        \A v \in Validators \ Voted :
            RecordsOf(accumulatedCommission, currentRewards, outstandingRewards, v)
              = RecordsOf(pre.c, pre.r, pre.o, v)

\* A step of the task of vote `i`, which runs AllocateTokensToValidator for the
\* validator of that vote, leaves every other validator's records, the pool and
\* the community fund alone.
TaskFrame ==
    pc = "wait" =>
        \A i \in Tasks :
            tpc'[i] # tpc[i] =>
                /\ UNCHANGED <<decimalPool, communityFund>>
                /\ \A v \in Validators \ {bondedVotes[i].val} :
                      RecordsOf(accumulatedCommission', currentRewards',
                                outstandingRewards', v)
                        = RecordsOf(accumulatedCommission, currentRewards,
                                    outstandingRewards, v)

\* C20 (frame): a cycle changes the accumulator records of no validator other
\* than those of its vote list, and AllocateTokensToValidator for a validator
\* changes only that validator's three records: no other validator's, not the
\* decimal pool, not the community fund.
C20_Frame == []CycleFrame /\ [][TaskFrame]_vars

\* A successful cycle on one vote that credited the voted validator while the
\* other validator had records in the store.
C20_Witness ==
    /\ CycleEnded("nil")
    /\ Len(bondedVotes) = 1
    /\ Delta(outstandingRewards, pre.o, bondedVotes[1].val) > 0
    /\ \E v \in Validators \ Voted : pre.o[v] # Absent /\ pre.c[v] # Absent

====
